---- MODULE Spec2Model ----
(***************************************************************************)
(* Model of the charting backend of openbb_charting/core/backend.py:       *)
(* the Backend singleton (class attribute `instance`, module global        *)
(* BACKEND), its dispatch operations send_figure / send_table / send_url,  *)
(* the health check check_backend, close, and the export watcher           *)
(* process_image.                                                          *)
(*                                                                         *)
(* The PyWry base class is an external library.  It is modelled only by    *)
(* what Backend passes to it and reads from it: its constructor stores     *)
(* max_retries, send_outgoing appends to the outgoing list (the list       *)
(* get_pending reads), close tears the connection down.  The import of     *)
(* pywry is taken to have succeeded (the DummyBackend stand-in is not      *)
(* modelled).                                                              *)
(*                                                                         *)
(* One calling thread is modelled.  send_figure with an export path runs   *)
(* the watcher with loop.run_until_complete, so the caller is inside       *)
(* process_image (pc = "process_image") until the watcher finishes.        *)
(***************************************************************************)
EXTENDS Integers, Sequences, FiniteSets, TLC

\* ------------------------------------------------------------------------
\* Bounds of the model
\* ------------------------------------------------------------------------
MaxQueue == 1          \* messages waiting in the outgoing list
MaxObjects == 2        \* objects the allocator may hand out
MaxFigHeight == 450    \* a figure taller than this is not dispatched again
MaxIdentities == 2     \* messages carrying the user's identity that are counted

\* ------------------------------------------------------------------------
\* Program constants
\* ------------------------------------------------------------------------
DefaultWidth == 1400
DefaultHeight == 762
InitMaxRetries == 30
ResetMaxRetries == 50
HeightOffset == 69
MaxChecks == 50
MinTableWidth == 800
WidthMargin == 100
TableHeightMargin == 100
\* versions are encoded major*10000 + minor*100 + patch
MinVersion == 512

\* Python's None for an optional integer / reference
None == 0
\* layout.height of a figure that has no explicit height
NoHeight == -1

Max(a, b) == IF a >= b THEN a ELSE b
Min(a, b) == IF a <= b THEN a ELSE b

RECURSIVE SeqSum(_)
SeqSum(s) == IF s = <<>> THEN 0 ELSE Head(s) + SeqSum(Tail(s))

RECURSIVE SeqMax(_)
SeqMax(s) == IF Len(s) = 1 THEN Head(s) ELSE Max(Head(s), SeqMax(Tail(s)))

RECURSIVE SeqMin(_)
SeqMin(s) == IF Len(s) = 1 THEN Head(s) ELSE Min(Head(s), SeqMin(Tail(s)))

\* ------------------------------------------------------------------------
\* Inputs
\* ------------------------------------------------------------------------
\* ChartingSettings values the callers pass (None: not configured)
ChartingSettingsSet ==
  { [plot_pywry_width |-> None, plot_pywry_height |-> None,
     log_collect |-> TRUE, user_uuid |-> 7],
    [plot_pywry_width |-> 2000, plot_pywry_height |-> 1000,
     log_collect |-> TRUE, user_uuid |-> None],
    [plot_pywry_width |-> 600, plot_pywry_height |-> 500,
     log_collect |-> FALSE, user_uuid |-> 7] }

\* versions of the installed renderer: below and at the minimum
PyWryVersions == {511, 512}

\* what `from pywry import __version__` can yield (None: ImportError)
Importable == PyWryVersions \cup {None}

\* a table is the sequence of its columns: length of the column name and
\* length of the longest value rendered as a string
Tables ==
  << << [name |-> 3, val |-> 5], [name |-> 4, val |-> 5], [name |-> 5, val |-> 2] >>,
     << [name |-> 2, val |-> 100], [name |-> 3, val |-> 4] >>,
     << [name |-> 10, val |-> 200], [name |-> 20, val |-> 5], [name |-> 5, val |-> 150] >> >>

FigHeights == {NoHeight, 400}

\* width / height arguments of send_url
UrlSizes == { [width |-> None, height |-> None], [width |-> 1200, height |-> 800] }

\* the asset files; at most one of them is missing from the installation
Assets == {"plotly.html", "table.html", "Terminal_icon.png"}

VARIABLES
  heap,          \* the Backend objects allocated so far, by identity 1..Len(heap)
  instance,      \* class attribute Backend.instance (None: not set)
  BACKEND,       \* module global BACKEND
  PyWry_version, \* PyWry.__version__ (None: the class has no such attribute)
  tty,           \* not a notebook, stdin is a tty, this is the main process
  missing_asset, \* the asset file that is not on disk, or "none"
  img_exists,    \* the export image of the running send_figure is on disk
  fig,           \* layout.height of the caller's figure object
  pc,            \* position of the calling thread
  checks,        \* local `checks` of process_image
  sleeps,        \* poll intervals the running watcher has waited
  last_call,     \* the last call made and how it ended
  recovery,      \* how far the calls so far are into degrade / reset / re-ensure
  identities     \* messages enqueued so far that carried user_id and email

vars == << heap, instance, BACKEND, PyWry_version, tty, missing_asset,
           img_exists, fig, pc, checks, sleeps, last_call,
           recovery, identities >>

watch_vars == << checks, sleeps >>

plotly_html_exists == missing_asset # "plotly.html"
table_html_exists == missing_asset # "table.html"
icon_exists == missing_asset # "Terminal_icon.png"

\* a call: its operation, its argument, what it returned (for a dispatch: how
\* many messages it appended to the outgoing list) and the exception it raised
Call(op, arg, ret, exc) == [op |-> op, arg |-> arg, ret |-> ret, exc |-> exc]

\* the number of messages a step appends to the outgoing list of handle h
Appended(h) == Len(heap'[h].outgoing) - Len(heap[h].outgoing)

Init ==
  /\ heap = <<>>
  /\ instance = None
  /\ BACKEND = None
  /\ PyWry_version \in PyWryVersions \cup {None}
  /\ tty \in BOOLEAN
  /\ missing_asset \in Assets \cup {"none"}
  /\ img_exists = FALSE
  /\ fig \in FigHeights
  /\ pc = "idle"
  /\ checks = 0
  /\ sleeps = 0
  /\ last_call = Call("none", None, None, "")
  /\ recovery = "none"
  /\ identities = 0

\* ------------------------------------------------------------------------
\* Backend.__new__ and Backend.__init__
\* ------------------------------------------------------------------------
\* the object super().__new__ allocates, before __init__ has run
BlankObject ==
  [charting_settings |-> None, max_retries |-> None, WIDTH |-> None,
   HEIGHT |-> None, logged_in |-> FALSE, isatty |-> FALSE, outgoing |-> <<>>]

\* __new__ without the hasattr test: every call allocates
BackendNewAlways ==
  [heap |-> Append(heap, BlankObject), obj |-> Len(heap) + 1]

\* Backend.__new__: the heap after the call and the object it returns
BackendNew ==
  IF instance = None
  THEN [heap |-> Append(heap, BlankObject), obj |-> Len(heap) + 1]
  ELSE [heap |-> heap, obj |-> instance]

\* Backend.__init__ on object o
BackendInit(o, settings) ==
  [o EXCEPT !.charting_settings = settings,
            !.max_retries = InitMaxRetries,
            !.isatty = tty,
            !.WIDTH = DefaultWidth,
            !.HEIGHT = DefaultHeight,
            !.logged_in = FALSE]

\* Backend(charting_settings): __new__ then __init__ on what __new__ returned
Construct(settings) ==
  [BackendNew.heap EXCEPT
     ![BackendNew.obj] = BackendInit(BackendNew.heap[BackendNew.obj], settings)]

\* the references to the handle a caller can hold
Refs == {instance, BACKEND} \ {None}

VersionOk == PyWry_version # None /\ PyWry_version >= MinVersion

\* a handle-creation call that follows close(reset=True) on a degraded handle
RecoveryAfterCreate ==
  IF recovery = "reset" /\ VersionOk THEN "reensured" ELSE "none"

\* a caller constructs Backend directly
ConstructBackend ==
  /\ pc = "idle"
  /\ Len(BackendNew.heap) <= MaxObjects
  /\ \E settings \in ChartingSettingsSet : heap' = Construct(settings)
  /\ instance' = BackendNew.obj
  /\ last_call' = Call("Backend", None, BackendNew.obj, "")
  /\ recovery' = RecoveryAfterCreate
  /\ UNCHANGED << BACKEND, PyWry_version, tty, missing_asset, img_exists, fig,
                  pc, watch_vars, identities >>

\* create_backend(charting_settings)
create_backend ==
  /\ pc = "idle"
  /\ Len(BackendNew.heap) <= MaxObjects
  /\ \E settings \in ChartingSettingsSet :
       IF BACKEND = None
       THEN /\ heap' = Construct(settings)
            /\ instance' = BackendNew.obj
            /\ BACKEND' = BackendNew.obj
       ELSE UNCHANGED << heap, instance, BACKEND >>
  /\ last_call' = Call("create_backend", None, None, "")
  /\ recovery' = RecoveryAfterCreate
  /\ UNCHANGED << PyWry_version, tty, missing_asset, img_exists, fig, pc,
                  watch_vars, identities >>

\* get_backend()
get_backend ==
  /\ pc = "idle"
  /\ last_call' = IF BACKEND = None
                  THEN Call("get_backend", None, None, "ValueError")
                  ELSE Call("get_backend", None, BACKEND, "")
  /\ UNCHANGED << heap, instance, BACKEND, PyWry_version, tty, missing_asset,
                  img_exists, fig, pc, watch_vars, recovery, identities >>

\* get_pending(): the renderer's loop takes what is waiting in the list
get_pending ==
  /\ \E h \in Refs :
       /\ heap[h].outgoing # <<>>
       /\ heap' = [heap EXCEPT ![h].outgoing = <<>>]
  /\ UNCHANGED << instance, BACKEND, PyWry_version, tty, missing_asset,
                  img_exists, fig, pc, watch_vars, last_call, recovery,
                  identities >>

\* ------------------------------------------------------------------------
\* Helpers of the dispatch operations
\* ------------------------------------------------------------------------
\* set_window_dimensions
SetWindowDimensions(o) ==
  [o EXCEPT
     !.WIDTH = IF o.charting_settings.plot_pywry_width # None
               THEN o.charting_settings.plot_pywry_width ELSE DefaultWidth,
     !.HEIGHT = IF o.charting_settings.plot_pywry_height # None
                THEN o.charting_settings.plot_pywry_height ELSE DefaultHeight]

\* the lookup without `self.max_retries = 0`
GetHtmlKeepRetries(o, exists) == SetWindowDimensions(o)

\* get_plotly_html / get_table_html: the object after the lookup
GetHtml(o, exists) ==
  IF exists THEN SetWindowDimensions(o)
  ELSE [SetWindowDimensions(o) EXCEPT !.max_retries = 0]

\* get_window_icon: the icon path, or None when the file is missing
GetWindowIcon == IF icon_exists THEN 1 ELSE None

\* get_json_update: does this call put user_id and email into posthog?
SendsIdentity(o) ==
  /\ o.charting_settings.log_collect
  /\ o.charting_settings.user_uuid # None
  /\ ~o.logged_in

\* get_json_update: the posthog block
Posthog(o) ==
  [collect_logs |-> o.charting_settings.log_collect,
   user_id |-> IF SendsIdentity(o) THEN o.charting_settings.user_uuid ELSE None]

\* get_json_update without `self.logged_in = True`
AfterJsonUpdateNoFlag(o) == o

\* get_json_update: the object afterwards
AfterJsonUpdate(o) ==
  [o EXCEPT !.logged_in = IF SendsIdentity(o) THEN TRUE ELSE @]

\* check_backend: the version compared with the minimum; imported is what
\* `from pywry import __version__` yields (None: ImportError)
CheckedVersion(imported) ==
  IF PyWry_version = None THEN imported ELSE PyWry_version

\* check_backend: the object afterwards
CheckBackend(o, imported) ==
  IF ~o.isatty THEN o
  ELSE IF CheckedVersion(imported) = None THEN [o EXCEPT !.max_retries = 0]
  ELSE IF CheckedVersion(imported) < MinVersion THEN [o EXCEPT !.max_retries = 0]
  ELSE o

\* check_backend: PyWry.__version__ afterwards
VersionAfterCheck(o, imported) ==
  IF o.isatty THEN CheckedVersion(imported) ELSE PyWry_version

\* does this check_backend call disable dispatch because of the version?
DegradesByVersion(o, imported) ==
  o.isatty /\ CheckedVersion(imported) # None /\ CheckedVersion(imported) < MinVersion

\* send_outgoing
SendOutgoing(o, msg) == [o EXCEPT !.outgoing = Append(@, msg)]

Message(kind, width, height, layout_height, posthog, export) ==
  [kind |-> kind, width |-> width, height |-> height, icon |-> GetWindowIcon,
   layout_height |-> layout_height, posthog |-> posthog, export_image |-> export]

\* the count of identity-carrying messages after msg is enqueued
Counted(msg) == identities + (IF msg.posthog.user_id # None THEN 1 ELSE 0)

\* ------------------------------------------------------------------------
\* send_figure and the export watcher process_image
\* ------------------------------------------------------------------------
\* the object when send_figure reaches get_plotly_html
FigureObj(o, imported) == AfterJsonUpdate(CheckBackend(o, imported))

FigureMessage(o, imported, export) ==
  Message("figure", None, None, fig + HeightOffset,
          Posthog(CheckBackend(o, imported)), export)

\* send_figure(fig, export_image) on handle h; export: an export path is
\* given; present: the export image is already on disk when the call is made
SendFigure(export, present) ==
  /\ pc = "idle"
  /\ fig <= MaxFigHeight
  /\ \E h \in Refs, imported \in Importable :
       /\ Len(heap[h].outgoing) < MaxQueue
       /\ PyWry_version' = VersionAfterCheck(heap[h], imported)
       /\ IF fig = NoHeight
          THEN \* fig.layout.height += 69 on None
               /\ heap' = [heap EXCEPT ![h] = CheckBackend(@, imported)]
               /\ last_call' = Call("send_figure", fig, Appended(h), "TypeError")
               /\ UNCHANGED << fig, pc, checks, sleeps, img_exists, identities >>
          ELSE /\ fig' = fig + HeightOffset
               /\ IF ~plotly_html_exists
                  THEN /\ heap' = [heap EXCEPT
                                     ![h] = GetHtml(FigureObj(@, imported), FALSE)]
                       /\ last_call' = Call("send_figure", fig, Appended(h),
                                            "FileNotFoundError")
                       /\ UNCHANGED << pc, checks, sleeps, img_exists, identities >>
                  ELSE /\ Counted(FigureMessage(heap[h], imported, export))
                            <= MaxIdentities
                       /\ heap' = [heap EXCEPT
                                     ![h] = SendOutgoing(
                                              GetHtml(FigureObj(@, imported), TRUE),
                                              FigureMessage(@, imported, export))]
                       /\ identities' =
                            Counted(FigureMessage(heap[h], imported, export))
                       /\ last_call' = Call("send_figure", fig, Appended(h), "")
                       /\ IF export
                          THEN /\ pc' = "process_image"
                               /\ checks' = 0
                               /\ sleeps' = 0
                               /\ img_exists' = present
                          ELSE UNCHANGED << pc, checks, sleeps, img_exists >>
  /\ recovery' = "none"
  /\ UNCHANGED << instance, BACKEND, tty, missing_asset >>

\* send_figure(fig)
send_figure == SendFigure(FALSE, FALSE)

\* send_figure(fig, export_image=path)
send_figure_export == \E present \in BOOLEAN : SendFigure(TRUE, present)

\* process_image: the test of `while not img_path.exists()`
WatcherTest ==
  /\ pc = "process_image"
  /\ pc' = IF img_exists THEN "process_image_end" ELSE "sleep"
  /\ UNCHANGED << heap, instance, BACKEND, PyWry_version, tty, missing_asset,
                  img_exists, fig, watch_vars, last_call, recovery, identities >>

\* process_image: asyncio.sleep(0.2) returns; checks += 1; break above 50
WatcherWake ==
  /\ pc = "sleep"
  /\ sleeps' = sleeps + 1
  /\ checks' = checks + 1
  /\ pc' = IF checks + 1 > MaxChecks THEN "process_image_end" ELSE "process_image"
  /\ UNCHANGED << heap, instance, BACKEND, PyWry_version, tty, missing_asset,
                  img_exists, fig, last_call, recovery, identities >>

\* process_image: the final `if img_path.exists()`, then send_figure returns
\* (ret: 1 the image was found, None the watcher gave up; arg: the number of
\* poll intervals it waited)
WatcherEnd ==
  /\ pc = "process_image_end"
  /\ last_call' = Call("process_image", sleeps, IF img_exists THEN 1 ELSE None, "")
  /\ pc' = "idle"
  /\ img_exists' = FALSE
  /\ checks' = 0
  /\ sleeps' = 0
  /\ UNCHANGED << heap, instance, BACKEND, PyWry_version, tty, missing_asset,
                  fig, recovery, identities >>

\* the external renderer writes the export image
ExportWritten ==
  /\ pc # "idle"
  /\ ~img_exists
  /\ img_exists' = TRUE
  /\ UNCHANGED << heap, instance, BACKEND, PyWry_version, tty, missing_asset,
                  fig, pc, watch_vars, last_call, recovery, identities >>

\* ------------------------------------------------------------------------
\* send_table
\* ------------------------------------------------------------------------
\* columnwidth: max of the name length and the longest value, per column
ColumnWidth(t) == [i \in 1..Len(t) |-> Max(t[i].name, t[i].val)]

\* int(x + (max - min) * 0.2) for every column
Inflated(cw) ==
  [i \in 1..Len(cw) |-> cw[i] + ((SeqMax(cw) - SeqMin(cw)) \div 5)]

\* sums s for which the double s * 9.7 lies just below the integer s*97/10
RoundsBelow == {50, 90, 100, 170, 180, 190, 200, 210} \cup
               {s \in 330..420 : s % 10 = 0} \cup {s \in 650..840 : s % 10 = 0}

\* int(s * 9.7) in double arithmetic, for 0 <= s < 1290
Scaled(s) == IF s \in RoundsBelow THEN ((s * 97) \div 10) - 1 ELSE (s * 97) \div 10

\* width = max(int(min(sum(columnwidth) * 9.7, self.WIDTH + 100)), 800)
TableWidth(t, WIDTH) ==
  Max(Min(Scaled(SeqSum(Inflated(ColumnWidth(t)))), WIDTH + WidthMargin),
      MinTableWidth)

\* the object when send_table reaches get_table_html
TableObj(o, imported) == AfterJsonUpdate(CheckBackend(o, imported))

TableMessage(o, imported, t) ==
  Message("table",
          TableWidth(t, CheckBackend(o, imported).WIDTH),
          GetHtml(TableObj(o, imported), TRUE).HEIGHT - TableHeightMargin,
          NoHeight, Posthog(CheckBackend(o, imported)), FALSE)

\* send_table(df_table) on handle h; n: which of Tables
send_table ==
  /\ pc = "idle"
  /\ \E h \in Refs, imported \in Importable, n \in 1..Len(Tables) :
       /\ Len(heap[h].outgoing) < MaxQueue
       /\ PyWry_version' = VersionAfterCheck(heap[h], imported)
       /\ IF ~table_html_exists
          THEN /\ heap' = [heap EXCEPT
                             ![h] = GetHtml(TableObj(@, imported), FALSE)]
               /\ last_call' = Call("send_table", n, Appended(h), "FileNotFoundError")
               /\ UNCHANGED identities
          ELSE /\ Counted(TableMessage(heap[h], imported, Tables[n]))
                    <= MaxIdentities
               /\ heap' = [heap EXCEPT
                             ![h] = SendOutgoing(
                                      GetHtml(TableObj(@, imported), TRUE),
                                      TableMessage(@, imported, Tables[n]))]
               /\ identities' =
                    Counted(TableMessage(heap[h], imported, Tables[n]))
               /\ last_call' = Call("send_table", n, Appended(h), "")
  /\ recovery' = "none"
  /\ UNCHANGED << instance, BACKEND, tty, missing_asset, img_exists, fig, pc,
                  watch_vars >>

\* ------------------------------------------------------------------------
\* send_url, check_backend, close
\* ------------------------------------------------------------------------
UrlMessage(o, size) ==
  Message("url",
          IF size.width # None THEN size.width ELSE o.WIDTH,
          IF size.height # None THEN size.height ELSE o.HEIGHT,
          NoHeight, [collect_logs |-> FALSE, user_id |-> None], FALSE)

\* send_url(url, title, width, height) on handle h
send_url ==
  /\ pc = "idle"
  /\ \E h \in Refs, imported \in Importable, size \in UrlSizes :
       /\ Len(heap[h].outgoing) < MaxQueue
       /\ PyWry_version' = VersionAfterCheck(heap[h], imported)
       /\ heap' = [heap EXCEPT
                     ![h] = SendOutgoing(CheckBackend(@, imported),
                                         UrlMessage(CheckBackend(@, imported), size))]
       /\ last_call' = Call("send_url", size.width, Appended(h), "")
  /\ recovery' = "none"
  /\ UNCHANGED << instance, BACKEND, tty, missing_asset, img_exists, fig, pc,
                  watch_vars, identities >>

\* check_backend() called on handle h
check_backend ==
  /\ pc = "idle"
  /\ \E h \in Refs, imported \in Importable :
       /\ PyWry_version' = VersionAfterCheck(heap[h], imported)
       /\ heap' = [heap EXCEPT ![h] = CheckBackend(@, imported)]
       /\ last_call' = Call("check_backend", None, None, "")
       /\ recovery' = IF DegradesByVersion(heap[h], imported) THEN "degraded"
                      ELSE IF recovery = "reensured" THEN "reensured"
                      ELSE "none"
  /\ UNCHANGED << instance, BACKEND, tty, missing_asset, img_exists, fig, pc,
                  watch_vars, identities >>

\* close without the `if reset` branch
CloseNoReset(o, reset) == o

\* Backend.close: the object afterwards
Close(o, reset) ==
  [o EXCEPT !.max_retries = IF reset THEN ResetMaxRetries ELSE @]

\* close(reset) on handle h (also what the atexit hook runs, reset = False)
close ==
  /\ pc = "idle"
  /\ \E h \in Refs, reset \in BOOLEAN :
       /\ heap' = [heap EXCEPT ![h] = Close(@, reset)]
       /\ last_call' = Call("close", IF reset THEN 1 ELSE None, None, "")
       /\ recovery' = IF recovery = "degraded" /\ reset THEN "reset" ELSE "none"
  /\ UNCHANGED << instance, BACKEND, PyWry_version, tty, missing_asset,
                  img_exists, fig, pc, watch_vars, identities >>

\* another renderer version is installed, or simulated, in the process
SetVersion ==
  /\ pc = "idle"
  /\ \E v \in PyWryVersions : v # PyWry_version /\ PyWry_version' = v
  /\ UNCHANGED << heap, instance, BACKEND, tty, missing_asset, img_exists, fig,
                  pc, watch_vars, last_call, recovery, identities >>

\* every operation, figures dispatched without an export path
Next ==
  \/ ConstructBackend
  \/ create_backend
  \/ get_backend
  \/ get_pending
  \/ send_figure
  \/ send_table
  \/ send_url
  \/ check_backend
  \/ close
  \/ SetVersion

Spec == Init /\ [][Next]_vars

\* the life cycle of the handle: creation, health check, close
NextHandle ==
  \/ ConstructBackend
  \/ create_backend
  \/ get_backend
  \/ check_backend
  \/ close
  \/ SetVersion

SpecHandle == Init /\ [][NextHandle]_vars

\* dispatches on the handle obtained through create_backend
NextDispatch ==
  \/ create_backend
  \/ get_backend
  \/ get_pending
  \/ send_figure
  \/ send_table
  \/ send_url
  \/ check_backend
  \/ close

SpecDispatch == Init /\ [][NextDispatch]_vars

\* dispatches with an export path and the watcher they start
NextExport ==
  \/ create_backend
  \/ get_pending
  \/ send_figure_export
  \/ WatcherTest
  \/ WatcherWake
  \/ WatcherEnd
  \/ ExportWritten
  \/ send_table
  \/ send_url

SpecExport == Init /\ [][NextExport]_vars

\* ------------------------------------------------------------------------
\* Properties
\* ------------------------------------------------------------------------
\* the width the settings of handle o configure
ConfiguredWidth(o) ==
  IF o.charting_settings.plot_pywry_width # None
  THEN o.charting_settings.plot_pywry_width ELSE DefaultWidth

Clamp(x, lo, hi) == Max(lo, Min(x, hi))

Last(q) == q[Len(q)]

\* C1 as stated: at most one Backend object is ever allocated, every direct
\* construction returns the object the first creation call produced, and once
\* a handle has been created get_backend returns that object.
C1_GetBackendAlwaysReturns ==
  /\ Len(heap) <= 1
  /\ last_call.op = "Backend" => last_call.ret = 1
  /\ (last_call.op = "get_backend" /\ instance # None) =>
       (last_call.exc = "" /\ last_call.ret = instance)

\* C1 amended: at most one Backend object is ever allocated, the class
\* attribute and the module global only ever refer to it, every direct
\* construction returns it, and get_backend returns it once create_backend
\* has been called; while only direct constructions have been made,
\* get_backend raises ValueError.
C1_Singleton ==
  /\ Len(heap) <= 1
  /\ instance \in {None, 1}
  /\ BACKEND \in {None, instance}
  /\ last_call.op = "Backend" => (last_call.ret = 1 /\ last_call.ret = instance)
  /\ last_call.op = "get_backend" =>
       IF BACKEND = None
       THEN last_call.exc = "ValueError"
       ELSE last_call.exc = "" /\ last_call.ret = instance

\* get_backend has returned the one object after create_backend
C1_Witness ==
  /\ Len(heap) = 1
  /\ last_call.op = "get_backend"
  /\ last_call.exc = ""
  /\ last_call.ret = instance

\* C2 as stated: a creation call (create_backend or a direct construction)
\* made when a handle already exists leaves the handle's settings, window
\* dimensions, retry budget and logged_in flag as they were.
C2_CreationLeavesHandle ==
  [][ (instance # None /\ (ConstructBackend \/ create_backend)) =>
        \A h \in Refs :
          /\ heap'[h].charting_settings = heap[h].charting_settings
          /\ heap'[h].WIDTH = heap[h].WIDTH
          /\ heap'[h].HEIGHT = heap[h].HEIGHT
          /\ heap'[h].max_retries = heap[h].max_retries
          /\ heap'[h].logged_in = heap[h].logged_in ]_vars

\* C3 as stated: the watcher never waits more than 50 poll intervals, and
\* when it gives up it has waited exactly 50.
C3_ExactlyMaxPolls ==
  /\ sleeps <= MaxChecks
  /\ (last_call.op = "process_image" /\ last_call.ret = None) =>
       last_call.arg = MaxChecks

\* C4: a health check on an interactive handle with a renderer below the
\* minimum version leaves the retry budget at 0; close(reset=True) right
\* after it restores the budget to 50; after the creation call that follows,
\* made with an up-to-date renderer, the budget is non-zero and a health
\* check leaves it non-zero.
C4_Recovers ==
  \A h \in Refs :
    /\ recovery = "degraded" => heap[h].max_retries = 0
    /\ recovery = "reset" => heap[h].max_retries = ResetMaxRetries
    /\ (recovery = "reensured" /\ VersionOk) =>
         /\ heap[h].max_retries > 0
         /\ \A imported \in Importable :
              CheckBackend(heap[h], imported).max_retries > 0

\* the whole sequence has run on an interactive handle, and the health check
\* after it has kept the budget
C4_Witness ==
  /\ recovery = "reensured"
  /\ VersionOk
  /\ last_call.op = "check_backend"
  /\ \E h \in Refs : heap[h].isatty /\ heap[h].max_retries > 0

\* C5 as stated: once the retry budget is 0, no call other than close (a
\* dispatch, a health check, a creation call) makes it non-zero again.
C5_NoRecovery ==
  [][ \A h \in Refs :
        (heap[h].max_retries = 0 /\ last_call'.op # "close") =>
          heap'[h].max_retries = 0 ]_vars

\* the last call was a dispatch that reached the lookup of the window icon's
\* owner: send_figure on a figure with a height, send_table or send_url
DispatchedLast ==
  \/ (last_call.op = "send_figure" /\ last_call.arg # NoHeight)
  \/ last_call.op \in {"send_table", "send_url"}

\* the last call was a dispatch whose HTML template is missing
TemplateMissingLast ==
  \/ (last_call.op = "send_figure" /\ last_call.arg # NoHeight
        /\ ~plotly_html_exists)
  \/ (last_call.op = "send_table" /\ ~table_html_exists)

\* C6 as stated: a dispatch made while an asset it resolves is missing (its
\* HTML template or the window icon) raises FileNotFoundError, leaves the
\* retry budget at 0 and enqueues nothing.
C6_EveryAssetRaises ==
  \A h \in Refs :
    (TemplateMissingLast \/ (DispatchedLast /\ ~icon_exists)) =>
      /\ last_call.exc = "FileNotFoundError"
      /\ heap[h].max_retries = 0
      /\ last_call.ret = 0

\* C6 amended: a dispatch that reaches the lookup of its HTML template while
\* the template is missing raises FileNotFoundError, leaves the retry budget
\* at 0 and enqueues nothing; a missing window icon raises nothing: the
\* dispatch that finds its template enqueues its message with icon None.
C6_MissingTemplateRaises ==
  \A h \in Refs :
    /\ TemplateMissingLast =>
         /\ last_call.exc = "FileNotFoundError"
         /\ heap[h].max_retries = 0
         /\ last_call.ret = 0
    /\ (DispatchedLast /\ ~TemplateMissingLast /\ ~icon_exists) =>
         /\ last_call.exc = ""
         /\ last_call.ret = 1
         /\ heap[h].outgoing # <<>> => Last(heap[h].outgoing).icon = None

\* a dispatch has raised FileNotFoundError for its missing template, on a
\* handle that no health check could have disabled
C6_Witness ==
  /\ TemplateMissingLast
  /\ last_call.exc = "FileNotFoundError"
  /\ \E h \in Refs : heap[h].max_retries = 0 /\ ~heap[h].isatty

\* C7 as stated: while the watcher is suspended in its poll interval and the
\* outgoing list has room, another dispatch call can be made.
C7_DispatchWhilePolling ==
  (pc = "sleep" /\ \A h \in Refs : Len(heap[h].outgoing) < MaxQueue) =>
    ENABLED (send_table \/ send_url)

\* C8 as stated: the width of the table message just enqueued is the scaled
\* sum of the inflated column widths clamped to [800, configured width + 100].
C8_ClampedWidth ==
  \A h \in Refs :
    (last_call.op = "send_table" /\ last_call.exc = ""
       /\ heap[h].outgoing # <<>>) =>
      /\ Last(heap[h].outgoing).width =
           Clamp(Scaled(SeqSum(Inflated(ColumnWidth(Tables[last_call.arg])))),
                 MinTableWidth, ConfiguredWidth(heap[h]) + WidthMargin)
      /\ Last(heap[h].outgoing).width >= MinTableWidth
      /\ (ConfiguredWidth(heap[h]) + WidthMargin >= MinTableWidth =>
            Last(heap[h].outgoing).width <= ConfiguredWidth(heap[h]) + WidthMargin)

\* C9 as stated: every send_figure call that finds its template, whatever
\* the figure, enqueues a payload whose height is the figure's height at the
\* call plus 69.
C9_HeightOffset ==
  \A h \in Refs :
    (last_call.op = "send_figure" /\ plotly_html_exists) =>
      /\ last_call.exc = ""
      /\ heap[h].outgoing # <<>> =>
           Last(heap[h].outgoing).layout_height = last_call.arg + HeightOffset

\* C10: on the handle obtained through create_backend at most one enqueued
\* message carries user_id and email, it is enqueued only under settings with
\* log_collect set and a user_uuid, and the handle is then marked logged in,
\* so that every message after it carries only collect_logs.
C10_IdentityOnce ==
  /\ identities <= 1
  /\ \A h \in Refs :
       /\ identities = 1 =>
            /\ heap[h].charting_settings.log_collect
            /\ heap[h].charting_settings.user_uuid # None
            /\ heap[h].logged_in
       /\ \A i \in 1..Len(heap[h].outgoing) :
            heap[h].outgoing[i].posthog.user_id # None => identities = 1

\* the identity has been sent, and a later message without it is waiting
C10_Witness ==
  /\ identities = 1
  /\ last_call.op \in {"send_figure", "send_table"}
  /\ last_call.exc = ""
  /\ \E h \in Refs :
       /\ heap[h].outgoing # <<>>
       /\ Last(heap[h].outgoing).posthog.user_id = None
       /\ Last(heap[h].outgoing).posthog.collect_logs
====
